---- MODULE Spec2Model ----
(***************************************************************************)
(* A model of siobg.py: the Nightscout <-> openaps bridge.                 *)
(*                                                                         *)
(* Three threads of control exist in the program: the main thread, which   *)
(* runs the socket.io callbacks (on_dataUpdate and the handlers it calls), *)
(* the watchdog observer thread (on_modified), and one threading.Timer     *)
(* thread per pending debounced call.  The clock `now` is time() in whole  *)
(* seconds; a Timer(wait, f) started at `now` runs f at some time that is  *)
(* not earlier than now + wait.                                            *)
(***************************************************************************)
EXTENDS Integers, Sequences, FiniteSets, TLC

VARIABLES
    now,                    \* time(), in whole seconds
    exited,                 \* the main thread has left through sys.exit()
    todo,                   \* position of on_dataUpdate: records still to handle
    t,                      \* <wrapped function>.t : the attribute set by debounce/throttle
    timers,                 \* the Timer threads that are started, not cancelled, not yet run
    pending_confirmations,  \* NightscoutNamespace.pending_confirmations
    emitted,                \* what io.emit has sent, oldest first
    boluses,                \* the calls of perform_bolus, oldest first
    ack_invoked,            \* history: the last call of the debounced ack_bolus_request,
                            \* and whether the record behind it named a pending key
                            \* (mismatch), repeated a confirm that was already
                            \* honoured, or cancelled a Timer with other arguments
    ack_ran,                \* history: runs of ack_bolus_request's body since that call
    websocket_treatments,   \* NightscoutNamespace.websocket_treatments
    websocket_temp_targets, \* NightscoutNamespace.websocket_temp_targets
    websocket_meal_carbs,   \* NightscoutNamespace.websocket_meal_carbs
    files,                  \* what this process last wrote to each file
    recomputed,             \* history: the recomputations of the derived views
    executed,               \* invoke_meal_json.executed, the attribute set by throttle
    meal_json_runs,         \* history: the times of the last two runs of
                            \* invoke_meal_json's body, oldest first
    wait_count,             \* the global wait_count
    main,                   \* where main is: at the test of its loop ("test"),
                            \* in socketIO.wait ("wait") or past the loop ("done")
    cycles,                 \* history: the polling waits that have returned
    last_event,             \* history: the polling cycle in which the last data
                            \* event was handled, 0 when there was none
    websocket_entries,      \* NightscoutNamespace.websocket_entries
    glucose                 \* what this process last wrote to monitor/glucose.json

mainVars  == <<exited, todo>>
timerVars == <<t, timers>>
bolusVars == <<pending_confirmations, boluses, ack_invoked, ack_ran>>
treatVars == <<websocket_treatments, websocket_temp_targets,
               websocket_meal_carbs, files, recomputed>>

watchVars == <<executed, meal_json_runs>>

loopVars  == <<wait_count, main, cycles, last_event>>
sgvVars   == <<websocket_entries, glucose>>

vars == <<now, mainVars, timerVars, bolusVars, emitted, treatVars, watchVars,
          loopVars, sgvVars>>

(***************************************************************************)
(* Bounds of the model.                                                    *)
(***************************************************************************)
MaxTicks == 2
MaxBatch == 2
MaxWatchTicks == 3
WatchStep == 5
MaxToolRecords == 1
MaxCycles == 12
MaxEntries == 3

\* time() when the program starts: a present-day epoch time in seconds.
StartTime == 17 * 100000000

Times == StartTime .. (StartTime + MaxTicks)

(***************************************************************************)
(* Values.                                                                 *)
(***************************************************************************)
\* A Python value is a tuple: <<>> is None, <<v>> is the value v.  The same
\* encoding is used for a key a dict may not hold and for an attribute that
\* may never have been assigned (AttributeError).
None   == <<>>
Absent == <<>>
Unset  == <<>>
Some(v) == <<v>>

my_id == "openaps://apstwo"

Devices == {"phoneA", "phoneB"}
Targets == {my_id, "openaps://other"}
Amounts == {Some(1), Some(2), None}   \* status['bolus']['units']; JSON null is None

\* The functions that carry a debounce or throttle decorator.
Wrapped == {"ack_bolus_request", "invoke_reconcile_treatments",
            "invoke_meal_json", "invoke_settings_profile_json",
            "invoke_ns_status"}

EmptyDict == [k \in {} |-> None]

DictGet(d, k) == IF k \in DOMAIN d THEN d[k] ELSE None

DictDel(d, k) == [x \in (DOMAIN d) \ {k} |-> d[x]]

\* int(status['bolus'].get('confirmation', 0))
Confirmation(bolus) ==
    IF bolus.confirmation = Absent THEN 0 ELSE bolus.confirmation[1]

\* The devicestatus records the cloud may push: with or without a 'bolus' part.
Statuses ==
    [device : Devices,
     bolus  : {Absent} \cup
              {Some(b) : b \in [units : Amounts, target : Targets,
                                confirmation : {Some(n) : n \in Times}
                                               \cup {Absent}]}]

Idle == [devicestatus |-> 0, treatments |-> Absent]

FileNames == {"monitor/carbhistory.json", "settings/temptargets.json"}

(***************************************************************************)
(* debounce(wait): cancel the Timer the attribute refers to, start a new   *)
(* one.  Cancelling a Timer that has run, or the first call's missing      *)
(* attribute, changes nothing.                                             *)
(***************************************************************************)
\* Timer(wait, call_it), with the arguments call_it passes on.
NewTimer(fn, wait, args) == [fn |-> fn, due |-> now + wait, args |-> args]

\* The attributes and the Timers, as the wrappers read and leave them.
\* `called` tells whether the throttled action ran in the handler at hand.
Scheduler == [t |-> t, timers |-> timers, executed |-> executed,
              called |-> FALSE]

DebouncedTimers_NoCancel(st, fn, wait, args) ==
    st.timers \cup {NewTimer(fn, wait, args)}

DebouncedTimers(st, fn, wait, args) ==
    (st.timers \ {x \in st.timers : x.fn = fn /\ st.t[fn] = Some(x)})
    \cup {NewTimer(fn, wait, args)}

Debounce(st, fn, wait, args) ==
    [st EXCEPT !.t = [st.t EXCEPT ![fn] = Some(NewTimer(fn, wait, args))],
               !.timers = DebouncedTimers(st, fn, wait, args)]

\* throttled.  A read of throttled.t or throttled.executed before its first
\* assignment raises AttributeError, and the handler of AttributeError runs
\* call_it: the action, then throttled.executed = time().
call_it(st, fn) == [st EXCEPT !.executed = Some(now), !.called = TRUE]

Throttle(st, fn, wait) ==
    IF st.t[fn] = Unset \/ st.executed = Unset
    THEN call_it([st EXCEPT !.timers =
                     st.timers \ {x \in st.timers : x.fn = fn /\ st.t[fn] = Some(x)}],
                 fn)
    ELSE IF now < st.executed[1] + wait
         THEN Debounce(st, fn, wait, <<>>)
         ELSE [st EXCEPT !.timers =
                   st.timers \ {x \in st.timers : x.fn = fn /\ st.t[fn] = Some(x)}]

debounced(fn, wait, args) ==
    \E st \in {Debounce(Scheduler, fn, wait, args)} :
        /\ timers' = st.timers
        /\ t' = st.t

AckWait == 1

(***************************************************************************)
(* perform_bolus(amount)                                                   *)
(***************************************************************************)
\* The table after `del self.pending_confirmations[key]` and perform_bolus's
\* `self.pending_confirmations = {}`.
TableAfterBolus_Kept(key) == pending_confirmations

TableAfterBolus(key) == EmptyDict

perform_bolus(key, amount) ==
    /\ pending_confirmations' = TableAfterBolus(key)
    /\ boluses' = Append(boluses,
                         [requester |-> key[1], confirmation |-> key[2],
                          units |-> amount])

(***************************************************************************)
(* ack_bolus_request(token, amount), the body run by the Timer.            *)
(***************************************************************************)
AckTable_Merge(token, amount) ==
    (token :> amount) @@ pending_confirmations

AckTable(token, amount) == (token :> amount)

AckStatus_OldNonce(token, amount) ==
    [device |-> my_id,
     bolusack |-> [units |-> amount, target |-> my_id,
                   initiator |-> token[1], confirmation |-> token[2] - 1]]

AckStatus(token, amount) ==
    [device |-> my_id,
     bolusack |-> [units |-> amount, target |-> my_id,
                   initiator |-> token[1], confirmation |-> token[2]]]

ack_bolus_request(token, amount) ==
    /\ pending_confirmations' = AckTable(token, amount)
    /\ emitted' = Append(emitted,
                         [event |-> "dbAdd", collection |-> "devicestatus",
                          data |-> AckStatus(token, amount)])

\* The Timer thread of a debounced ack_bolus_request runs call_it.
AckTimerFires ==
    \E tm \in timers :
        /\ tm.fn = "ack_bolus_request"
        /\ now >= tm.due
        /\ timers' = timers \ {tm}
        /\ ack_bolus_request(tm.args[1], tm.args[2])
        /\ ack_ran' = ack_ran + 1
        /\ UNCHANGED <<now, mainVars, t, boluses, ack_invoked, treatVars,
                       watchVars, loopVars, sgvVars>>

(***************************************************************************)
(* handle_devicestatus: one pass of its loop.                              *)
(***************************************************************************)
IsConfirm_AnyAmount(key, amount) ==
    key \in DOMAIN pending_confirmations

IsConfirm(key, amount) ==
    DictGet(pending_confirmations, key) = amount

Ignored_NoTargetTest(status) == status.bolus = Absent

\* 'bolus' not in status, or target_device_id != my_id: continue
Ignored(status) == status.bolus = Absent \/ status.bolus[1].target # my_id

handle_devicestatus(status) ==
    /\ ~exited
    /\ todo.devicestatus > 0
    /\ IF Ignored(status)
       THEN /\ todo' = [todo EXCEPT !.devicestatus = @ - 1]
            /\ UNCHANGED <<exited, t, timers, pending_confirmations, emitted,
                           boluses, ack_invoked, ack_ran>>
       ELSE LET key == <<status.device, Confirmation(status.bolus[1])>>
                amount == status.bolus[1].units
            IN  IF IsConfirm(key, amount)
                THEN IF key \in DOMAIN pending_confirmations
                     THEN /\ perform_bolus(key, amount)
                          /\ todo' = [todo EXCEPT !.devicestatus = @ - 1]
                          /\ UNCHANGED <<exited, t, timers, emitted,
                                         ack_invoked, ack_ran>>
                     ELSE \* del raises KeyError; on_dataUpdate catches it and exits
                          /\ exited' = TRUE
                          /\ todo' = Idle
                          /\ UNCHANGED <<t, timers, pending_confirmations,
                                         emitted, boluses, ack_invoked, ack_ran>>
                ELSE LET args == <<<<status.device, now>>, amount>>
                     IN  /\ debounced("ack_bolus_request", AckWait, args)
                         /\ ack_invoked' =
                                Some([time |-> now, args |-> args,
                                      mismatch |->
                                          key \in DOMAIN pending_confirmations,
                                      repeated |->
                                          \E i \in 1 .. Len(boluses) :
                                              boluses[i] =
                                                  [requester |-> key[1],
                                                   confirmation |-> key[2],
                                                   units |-> amount],
                                      superseded |->
                                          \E tm \in timers \ timers' :
                                              tm.args # args])
                         /\ ack_ran' = 0
                         /\ todo' = [todo EXCEPT !.devicestatus = @ - 1]
                         /\ UNCHANGED <<exited, pending_confirmations, emitted,
                                        boluses>>
    /\ UNCHANGED <<now, treatVars, watchVars, loopVars, sgvVars>>

HandleDevicestatus == \E status \in Statuses : handle_devicestatus(status)


(***************************************************************************)
(* Treatments.  A treatment is a record; a field holds Absent when the     *)
(* JSON object lacks the key.                                              *)
(***************************************************************************)
MILLIS_PER_SECOND == 1000

timestamp_hours_ago(hours) == now - hours * 60 * 60 * MILLIS_PER_SECOND

EventTypes == {"Carb Correction", "Temporary Target"}

\* 'Target' in eventType
HasTarget(eventType) == eventType \in {"Temporary Target"}

Ids == {"X", "Y"}

\* The time fields of a treatment: 'timestamp', 'created_at', either or none.
\* The cloud adds treatments that carry a 'timestamp' and treatments that
\* carry only 'created_at'; a removal may carry either, with any value, or
\* neither.
InsertStamps ==
    { [timestamp |-> Some(1000), created_at |-> Absent],
      [timestamp |-> Absent,     created_at |-> Some(2000)] }

RemoveStamps ==
    InsertStamps \cup
    { [timestamp |-> Some(2000), created_at |-> Absent],
      [timestamp |-> Absent,     created_at |-> Absent] }

\* 'mills' goes with the time of the treatment.  timestamp_hours_ago takes
\* the window's length in milliseconds from a time in seconds, so the records
\* that leave a window while the model runs have a 'mills' of that size:
\* OldMills leaves the 24 hour window and MidMills the 6 hour window one
\* second after StartTime.
OldMills == StartTime - 24 * 60 * 60 * MILLIS_PER_SECOND
MidMills == StartTime - 6 * 60 * 60 * MILLIS_PER_SECOND

MillsOf(stamp) ==
    IF stamp.timestamp = Some(1000) THEN OldMills ELSE MidMills

\* The treatments the cloud adds: a carb correction carries carbs.
Inserts ==
    { [eventType |-> Some(e), timestamp |-> s.timestamp,
       created_at |-> s.created_at, id |-> Some(i), action |-> Absent,
       carbs |-> IF e = "Carb Correction" THEN Some(20) ELSE Absent,
       insulin |-> Absent, mills |-> Some(MillsOf(s))]
      : e \in EventTypes, s \in InsertStamps, i \in Ids }

\* The treatments the cloud removes.
Removes ==
    { [eventType |-> Some(e), timestamp |-> s.timestamp,
       created_at |-> s.created_at, id |-> Some(i), action |-> Some("remove"),
       carbs |-> Absent, insulin |-> Absent, mills |-> Absent]
      : e \in EventTypes, s \in RemoveStamps, i \in Ids }

Treatments == Inserts \cup Removes

\* Records that lack a key the handler reads with []: an added treatment
\* without 'eventType', a removal without '_id'.
MalformedTreatments ==
    { [eventType |-> Absent, timestamp |-> Some(1000), created_at |-> Absent,
       id |-> Some("X"), action |-> Absent, carbs |-> Some(20),
       insulin |-> Absent, mills |-> Some(OldMills)],
      [eventType |-> Some("Carb Correction"), timestamp |-> Some(1000),
       created_at |-> Absent, id |-> Absent, action |-> Some("remove"),
       carbs |-> Absent, insulin |-> Absent, mills |-> Absent] }

\* treatment.get('timestamp', treatment.get('created_at', None))
KeyTime(treatment) ==
    IF treatment.timestamp # Absent THEN treatment.timestamp
    ELSE treatment.created_at

TreatmentKey(treatment) == <<treatment.eventType[1], KeyTime(treatment)>>

\* treatment.get('action', None) and treatment['action'] == 'remove'
IsRemove(treatment) == treatment.action = Some("remove")

\* The keys of the stored treatments whose '_id' is that of `treatment`.
RemovedTreatments(store, treatment) ==
    {k \in DOMAIN store : store[k].id = treatment.id}

\* The key that is deleted for a stored treatment that has the removed '_id'.
DeletedKey(removed_treatment, treatment) ==
    <<removed_treatment.eventType[1], KeyTime(treatment)>>

\* One pass of handle_treatments' loop over the store.
ApplyTreatment(store, treatment) ==
    IF IsRemove(treatment)
    THEN LET gone == {DeletedKey(store[k], treatment) :
                          k \in RemovedTreatments(store, treatment)}
         IN  [k \in (DOMAIN store) \ gone |-> store[k]]
    ELSE (TreatmentKey(treatment) :> treatment) @@ store

\* A Python value is true.
Truthy(v) == v # None /\ v[1] # 0

\* list.sort(key=lambda t: t.get('mills'), reverse=True).  The treatments of
\* one view have different 'mills' here.
RECURSIVE SortedByMills(_)
SortedByMills(S) ==
    IF S = {} THEN <<>>
    ELSE LET first == CHOOSE x \in S : \A y \in S : x.mills[1] >= y.mills[1]
         IN  <<first>> \o SortedByMills(S \ {first})

InWindow(treatment, hours) ==
    treatment.mills # Absent /\ treatment.mills[1] >= timestamp_hours_ago(hours)

MealCarbs(store) ==
    SortedByMills({store[k] : k \in
        {x \in DOMAIN store :
            /\ Truthy(store[x].carbs) \/ Truthy(store[x].insulin)
            /\ InWindow(store[x], 24)}})

TempTargets(store) ==
    SortedByMills({store[k] : k \in
        {x \in DOMAIN store :
            /\ HasTarget(store[x].eventType[1])
            /\ InWindow(store[x], 6)}})

\* if self.websocket_meal_carbs != new_websocket_meal_carbs
ViewChanged_Always(old, new) == TRUE

ViewChanged(old, new) == new # old

\* write_treatment_json: `if treatments:`
WritesFile(treatments) == treatments # <<>>

\* A view is stored and written when it has changed, and written only when
\* it is not empty.
Written(old, new) == ViewChanged(old, new) /\ WritesFile(new)

\* handle_temp_targets and handle_meal_carbs with the newly computed views.
StoreViews(new_temp_targets, new_meal_carbs) ==
    /\ websocket_temp_targets' = new_temp_targets
    /\ websocket_meal_carbs' = new_meal_carbs
    /\ files' =
         [f \in FileNames |->
            IF f = "settings/temptargets.json"
            THEN IF Written(websocket_temp_targets, new_temp_targets)
                 THEN Some(new_temp_targets) ELSE files[f]
            ELSE IF Written(websocket_meal_carbs, new_meal_carbs)
                 THEN Some(new_meal_carbs) ELSE files[f]]
    /\ recomputed' =
         [any |-> TRUE,
          wrote |->
            [f \in FileNames |->
               IF f = "settings/temptargets.json"
               THEN Written(websocket_temp_targets, new_temp_targets)
               ELSE Written(websocket_meal_carbs, new_meal_carbs)]]

\* handle_temp_targets and handle_meal_carbs over the store `store`.
Recompute(store) ==
    \E new_temp_targets \in {TempTargets(store)},
       new_meal_carbs \in {MealCarbs(store)} :
        StoreViews(new_temp_targets, new_meal_carbs)

\* treatment['eventType'] of an added treatment without the key, and
\* treatment['_id'] of a removal without the key, which is read once for
\* every stored treatment.
RaisesKeyError(store, treatment) ==
    IF IsRemove(treatment)
    THEN treatment.id = Absent /\ DOMAIN store # {}
    ELSE treatment.eventType = Absent

\* handle_treatments: one pass of its loop; the last pass goes on to
\* handle_temp_targets and handle_meal_carbs.
handle_treatments(treatment) ==
    /\ ~exited
    /\ todo.devicestatus = 0
    /\ todo.treatments # Absent
    /\ IF RaisesKeyError(websocket_treatments, treatment)
       THEN \* on_dataUpdate catches the exception and calls sys.exit()
            /\ exited' = TRUE
            /\ todo' = Idle
            /\ UNCHANGED treatVars
       ELSE /\ websocket_treatments' =
                   ApplyTreatment(websocket_treatments, treatment)
            /\ IF todo.treatments[1] = 1
               THEN /\ Recompute(ApplyTreatment(websocket_treatments, treatment))
                    /\ todo' = Idle
               ELSE /\ todo' = [todo EXCEPT !.treatments = Some(@[1] - 1)]
                    /\ UNCHANGED <<websocket_temp_targets, websocket_meal_carbs,
                                   files, recomputed>>
            /\ UNCHANGED exited
    /\ UNCHANGED <<now, timerVars, bolusVars, emitted, watchVars, loopVars,
                   sgvVars>>

HandleTreatments ==
    \E treatment \in Treatments \cup MalformedTreatments :
        handle_treatments(treatment)

\* handle_treatments over a whole batch: the store and the views it leaves.
RECURSIVE ApplyBatch(_, _)
ApplyBatch(store, batch) ==
    IF batch = <<>> THEN store
    ELSE ApplyBatch(ApplyTreatment(store, Head(batch)), Tail(batch))

AfterBatch(store, batch) ==
    [websocket_treatments |-> ApplyBatch(store, batch),
     websocket_temp_targets |-> TempTargets(ApplyBatch(store, batch)),
     websocket_meal_carbs |-> MealCarbs(ApplyBatch(store, batch))]

(***************************************************************************)
(* on_dataUpdate: a data event arrives, with nds devicestatus records and, *)
(* when it has the key 'treatments', ntr[1] treatments.  The records are   *)
(* handled one by one; an empty list of treatments goes to the views at    *)
(* once.                                                                   *)
(***************************************************************************)
\* Events are dispatched inside socketIO.wait; the handler first resets
\* wait_count.
Received ==
    /\ ~exited
    /\ main = "wait"
    /\ todo = Idle
    /\ wait_count' = 0
    /\ last_event' = cycles + 1
    /\ UNCHANGED <<main, cycles>>

on_dataUpdate(nds, ntr) ==
    /\ Received
    /\ IF nds = 0 /\ ntr = Some(0)
       THEN /\ Recompute(websocket_treatments)
            /\ UNCHANGED <<todo, websocket_treatments>>
       ELSE /\ todo' = [devicestatus |-> nds, treatments |-> ntr]
            /\ UNCHANGED treatVars
    /\ UNCHANGED <<now, exited, timerVars, bolusVars, emitted, watchVars,
                   sgvVars>>

DataUpdateDevicestatus == \E n \in 1 .. MaxBatch : on_dataUpdate(n, Absent)

DataUpdateTreatments == \E n \in 0 .. MaxBatch : on_dataUpdate(0, Some(n))

(***************************************************************************)
(* Glucose entries.  An epoch time in milliseconds is kept as its thousands *)
(* and its units, the number itself being thousands * 1000 + units.         *)
(***************************************************************************)
Millis(seconds) == [thousands |-> seconds, units |-> 0]

\* m > n, for a time m in milliseconds and a number n >= 0
MillisGreater(m, n) ==
    \/ m.thousands > n \div 1000
    \/ m.thousands = n \div 1000 /\ m.units > n % 1000

MillisAtLeast(m, n) ==
    \/ m.thousands > n.thousands
    \/ m.thousands = n.thousands /\ m.units >= n.units

\* The sgvs the cloud pushes: read so many hours before StartTime, 'mills' in
\* epoch milliseconds, or without 'mills'.
SgvAges == {1, 25, 48}

Sgvs ==
    {[mills |-> Some(Millis(StartTime - hours * 60 * 60))] : hours \in SgvAges}
    \cup {[mills |-> Absent]}

SgvBatches == UNION {[1 .. n -> Sgvs] : n \in 1 .. MaxBatch}

\* The entries the loop of handle_sgvs appends; entry['mills'] of an sgv
\* without the key raises KeyError, which ends the loop.
RECURSIVE Appended(_, _)
Appended(entries, sgvs) ==
    IF sgvs = <<>> \/ Head(sgvs).mills = Absent THEN entries
    ELSE Appended(Append(entries, [date |-> Head(sgvs).mills[1]]), Tail(sgvs))

\* entry.get('date') > timestamp_1d
Recent(entry, timestamp_1d) == MillisGreater(entry.date, timestamp_1d)

\* websocket_entries.sort(key=lambda k: k.get('date'), reverse=True)
RECURSIVE SortedByDate(_)
SortedByDate(entries) ==
    IF entries = <<>> THEN <<>>
    ELSE LET rest == SortedByDate(Tail(entries))
             before == SelectSeq(rest, LAMBDA e :
                           ~MillisAtLeast(Head(entries).date, e.date))
             after == SelectSeq(rest, LAMBDA e :
                          MillisAtLeast(Head(entries).date, e.date))
         IN  before \o <<Head(entries)>> \o after

\* write_glucose_json
GlucoseWritten(entries) == IF entries # <<>> THEN Some(entries) ELSE glucose

handle_sgvs(sgvs, timestamp_1d) ==
    /\ websocket_entries' = Appended(websocket_entries, sgvs)
    /\ IF \E i \in 1 .. Len(sgvs) : sgvs[i].mills = Absent
       THEN \* on_dataUpdate catches the exception and calls sys.exit()
            /\ exited' = TRUE
            /\ UNCHANGED glucose
       ELSE /\ glucose' =
                   GlucoseWritten(SortedByDate(
                       SelectSeq(Appended(websocket_entries, sgvs),
                                 LAMBDA e : Recent(e, timestamp_1d))))
            /\ UNCHANGED exited

\* A data event with the key 'sgvs' only.
DataUpdateSgvs ==
    \E sgvs \in SgvBatches :
        /\ Received
        /\ Len(websocket_entries) + Len(sgvs) <= MaxEntries
        /\ handle_sgvs(sgvs, timestamp_hours_ago(24))
        /\ UNCHANGED <<now, todo, timerVars, bolusVars, emitted, treatVars,
                       watchVars>>

\* A data event with none of the keys 'devicestatus', 'sgvs', 'treatments'.
DataUpdateOther == on_dataUpdate(0, Absent)

(***************************************************************************)
(* main: the polling loop, and the notifications of the transport that end *)
(* the session.  sys.exit() ends the session where it is called.           *)
(***************************************************************************)
WaitLimit == 7
DisconnectStep == 8

LoopCondition_Inclusive(count) == count <= WaitLimit

\* while wait_count < 7
LoopCondition(count) == count < WaitLimit

MainLoopTest ==
    /\ ~exited
    /\ main = "test"
    /\ main' = IF LoopCondition(wait_count) THEN "wait" ELSE "done"
    /\ UNCHANGED <<now, mainVars, timerVars, bolusVars, emitted, treatVars,
                   watchVars, wait_count, cycles, last_event, sgvVars>>

\* socketIO.wait(60) returns; wait_count += 1
MainLoopWait ==
    /\ ~exited
    /\ main = "wait"
    /\ todo = Idle
    /\ cycles < MaxCycles
    /\ wait_count' = wait_count + 1
    /\ cycles' = cycles + 1
    /\ main' = "test"
    /\ UNCHANGED <<now, mainVars, timerVars, bolusVars, emitted, treatVars,
                   watchVars, last_event, sgvVars>>

\* The alarm of WatchdogTimer(120) is raised in a wait that the handling of
\* an event has held up; nothing catches it.
WatchdogAlarm ==
    /\ ~exited
    /\ main = "wait"
    /\ last_event = cycles + 1
    /\ exited' = TRUE
    /\ UNCHANGED <<now, todo, timerVars, bolusVars, emitted, treatVars,
                   watchVars, loopVars, sgvVars>>

on_disconnect ==
    /\ ~exited
    /\ main = "wait"
    /\ todo = Idle
    /\ wait_count' = wait_count + DisconnectStep
    /\ exited' = TRUE
    /\ UNCHANGED <<now, todo, timerVars, bolusVars, emitted, treatVars,
                   watchVars, main, cycles, last_event, sgvVars>>

on_error ==
    /\ ~exited
    /\ main = "wait"
    /\ todo = Idle
    /\ exited' = TRUE
    /\ UNCHANGED <<now, todo, timerVars, bolusVars, emitted, treatVars,
                   watchVars, loopVars, sgvVars>>

on_close ==
    /\ ~exited
    /\ main = "wait"
    /\ todo = Idle
    /\ exited' = TRUE
    /\ UNCHANGED <<now, todo, timerVars, bolusVars, emitted, treatVars,
                   watchVars, loopVars, sgvVars>>

\* time() moves on by `step` seconds, up to the time `last`.
Advance(step, last) ==
    /\ now + step <= last
    /\ now' = now + step
    /\ UNCHANGED <<mainVars, timerVars, bolusVars, emitted, treatVars, watchVars,
                   loopVars, sgvVars>>

Tick == Advance(1, StartTime + MaxTicks)

(***************************************************************************)
(* The file watcher.  time() is read every WatchStep seconds here, for as   *)
(* long as the longest timer of a trigger takes to fire.                    *)
(***************************************************************************)
ReconcileWait == 10
MealWait == 15
ProfileWait == 15
NsStatusWait == 10

WatchTick == Advance(WatchStep, StartTime + WatchStep * MaxWatchTicks)

MealPaths ==
    {"./settings/profile.json", "./monitor/carbhistory.json",
     "./monitor/clock-zoned.json", "./monitor/pumphistory-zoned.json",
     "./settings/basal_profile.json", "./monitor/glucose.json"}

ProfilePaths ==
    {"./settings/bg_targets.json", "./preferences.json",
     "./settings/settings.json", "./settings/basal_profile.json",
     "./settings/carb_ratios.json", "./settings/temptargets.json",
     "./settings/model.json", "./settings/autotune.json",
     "./settings/insulin_sensitivities.json"}

NsStatusPaths ==
    {"./monitor/clock-zoned.json", "./monitor/iob.json",
     "./enact/suggested.json", "./enact/enacted.json",
     "./monitor/battery.json", "./monitor/reservoir.json",
     "./monitor/status.json"}

ReconcilePaths == {"./monitor/pumphistory-zoned.json"}

\* The notifications of the observer: the paths of the table, the directory
\* the handler skips and a file of no group; a change or a creation.
Events ==
    [src_path : MealPaths \cup ProfilePaths \cup NsStatusPaths
                \cup ReconcilePaths \cup {"./.git", "./monitor/meal.json"},
     event_type : {"modified", "created"}]

Routed_FirstMatch(src_path) ==
    IF src_path \in MealPaths
    THEN Throttle(Scheduler, "invoke_meal_json", MealWait)
    ELSE IF src_path \in ProfilePaths
    THEN Debounce(Scheduler, "invoke_settings_profile_json", ProfileWait, <<>>)
    ELSE IF src_path \in NsStatusPaths
    THEN Debounce(Scheduler, "invoke_ns_status", NsStatusWait, <<>>)
    ELSE IF src_path \in ReconcilePaths
    THEN Debounce(Scheduler, "invoke_reconcile_treatments", ReconcileWait, <<>>)
    ELSE Scheduler

\* The wrappers on_modified calls for the path, in the order of its tests.
Routed(src_path) ==
    LET meal == IF src_path \in MealPaths
                THEN Throttle(Scheduler, "invoke_meal_json", MealWait)
                ELSE Scheduler
        profile == IF src_path \in ProfilePaths
                   THEN Debounce(meal, "invoke_settings_profile_json",
                                 ProfileWait, <<>>)
                   ELSE meal
        status == IF src_path \in NsStatusPaths
                  THEN Debounce(profile, "invoke_ns_status", NsStatusWait, <<>>)
                  ELSE profile
    IN  IF src_path \in ReconcilePaths
        THEN Debounce(status, "invoke_reconcile_treatments", ReconcileWait,
                      <<>>)
        ELSE status

LastTwo(runs) == IF Len(runs) <= 2 THEN runs ELSE Tail(runs)

on_modified(event) ==
    /\ IF event.src_path = "./.git" \/ event.event_type # "modified"
       THEN UNCHANGED <<timerVars, watchVars>>
       ELSE \E st \in {Routed(event.src_path)} :
                /\ t' = st.t
                /\ timers' = st.timers
                /\ executed' = st.executed
                /\ meal_json_runs' =
                       IF st.called THEN LastTwo(Append(meal_json_runs, now))
                       ELSE meal_json_runs
    /\ UNCHANGED <<now, mainVars, bolusVars, emitted, treatVars, loopVars,
                   sgvVars>>

Modified == \E event \in Events : on_modified(event)

\* A Timer of a debounced trigger fires: the trigger's body runs.
Fires(fn, tm) ==
    /\ tm.fn = fn
    /\ now >= tm.due
    /\ timers' = timers \ {tm}

invoke_settings_profile_json ==
    \E tm \in timers :
        /\ Fires("invoke_settings_profile_json", tm)
        /\ UNCHANGED <<now, mainVars, t, bolusVars, emitted, treatVars,
                       watchVars, loopVars, sgvVars>>

\* What ns-status prints: nothing when the tool fails, else a status with or
\* without "iob" in it.
NsStatuses == {Absent, Some([iob |-> FALSE]), Some([iob |-> TRUE])}

invoke_ns_status ==
    \E tm \in timers, status \in NsStatuses :
        /\ Fires("invoke_ns_status", tm)
        /\ emitted' =
               IF status # Absent /\ status[1].iob
               THEN Append(emitted, [event |-> "dbAdd",
                                     collection |-> "devicestatus",
                                     data |-> status[1]])
               ELSE emitted
        /\ UNCHANGED <<now, mainVars, t, bolusVars, treatVars, watchVars,
                       loopVars, sgvVars>>

\* The records of mm-format-ns-treatments: no '_id', with or without a
\* 'timestamp'.
LocalTreatments ==
    { [eventType |-> Some("Carb Correction"), timestamp |-> s.timestamp,
       created_at |-> s.created_at, id |-> Absent, action |-> Absent,
       carbs |-> Some(20), insulin |-> Absent, mills |-> Absent]
      : s \in InsertStamps }

\* What the formatting tool prints: nothing when it fails, else a list.
ToolOutputs ==
    {Absent} \cup
    {Some(out) : out \in UNION {[1 .. n -> LocalTreatments]
                                  : n \in 0 .. MaxToolRecords}}

\* The messages of the loop over the tool's list; treatment['timestamp'] of
\* a record without one raises KeyError, which ends the loop.
RECURSIVE ReconcileEmits(_)
ReconcileEmits(treatments_json) ==
    IF treatments_json = <<>> THEN <<>>
    ELSE LET treatment == Head(treatments_json)
         IN  IF treatment.eventType = Absent \/ treatment.timestamp = Absent
             THEN <<>>
             ELSE (IF <<treatment.eventType[1], treatment.timestamp>>
                         \in DOMAIN websocket_treatments
                   THEN <<>>
                   ELSE <<[event |-> "dbAdd", collection |-> "treatments",
                           data |-> treatment]>>)
                  \o ReconcileEmits(Tail(treatments_json))

invoke_reconcile_treatments ==
    \E tm \in timers, formatted_treatments \in ToolOutputs :
        /\ Fires("invoke_reconcile_treatments", tm)
        /\ emitted' =
               IF formatted_treatments = Absent THEN emitted
               ELSE emitted \o ReconcileEmits(formatted_treatments[1])
        /\ UNCHANGED <<now, mainVars, t, bolusVars, treatVars, watchVars,
                       loopVars, sgvVars>>

Init ==
    /\ now = StartTime
    /\ exited = FALSE
    /\ todo = Idle
    /\ t = [fn \in Wrapped |-> Unset]
    /\ timers = {}
    /\ pending_confirmations = EmptyDict
    /\ emitted = <<>>
    /\ boluses = <<>>
    /\ ack_invoked = None
    /\ ack_ran = 0
    /\ websocket_treatments = EmptyDict
    /\ websocket_temp_targets = <<>>
    /\ websocket_meal_carbs = <<>>
    /\ files = [f \in FileNames |-> Unset]
    /\ recomputed = [any |-> FALSE, wrote |-> [f \in FileNames |-> FALSE]]
    /\ executed = Unset
    /\ meal_json_runs = <<>>
    /\ wait_count = 0
    /\ main = "test"
    /\ cycles = 0
    /\ last_event = 0
    /\ websocket_entries = <<>>
    /\ glucose = Unset

NextBolus ==
    \/ MainLoopTest
    \/ Tick
    \/ DataUpdateDevicestatus
    \/ HandleDevicestatus
    \/ AckTimerFires

NextTreat ==
    \/ MainLoopTest
    \/ Tick
    \/ DataUpdateTreatments
    \/ HandleTreatments

SpecTreat == Init /\ [][NextTreat]_vars

SpecBolus == Init /\ [][NextBolus]_vars

\* Time passes, and a Timer thread whose interval has passed gets to run.
NextSched ==
    \/ WatchTick
    \/ Modified
    \/ invoke_settings_profile_json
    \/ invoke_ns_status
    \/ invoke_reconcile_treatments

SpecSched == Init /\ [][NextSched]_vars

NextSgv ==
    \/ MainLoopTest
    \/ Tick
    \/ DataUpdateSgvs

SpecSgv == Init /\ [][NextSgv]_vars

NextMain ==
    \/ MainLoopTest
    \/ MainLoopWait
    \/ DataUpdateOther
    \/ WatchdogAlarm
    \/ on_disconnect
    \/ on_error
    \/ on_close

SpecMain == Init /\ [][NextMain]_vars

\* main goes on when it can.
FairSpecMain == SpecMain /\ WF_vars(MainLoopTest) /\ WF_vars(MainLoopWait)

FairSpecBolus == SpecBolus /\ WF_vars(Tick) /\ WF_vars(AckTimerFires)

(***************************************************************************)
(* The bolus handshake and the debounced acknowledgment.                   *)
(***************************************************************************)
\* The step is a run of ack_bolus_request's body by its Timer.
AckRuns == ack_ran' = ack_ran + 1

\* The devicestatus record by which `device` asks this device for `amount`
\* with the confirmation `nonce`.
Request(device, nonce, amount) ==
    [device |-> device,
     bolus |-> Some([units |-> amount, target |-> my_id,
                     confirmation |-> Some(nonce)])]

AckMessage(requester, nonce, amount) ==
    [event |-> "dbAdd", collection |-> "devicestatus",
     data |-> [device |-> my_id,
               bolusack |-> [units |-> amount, target |-> my_id,
                             initiator |-> requester, confirmation |-> nonce]]]

\* The last Timer that was started is due after the last time of the model.
BeyondHorizon == \E tm \in timers : tm.due > StartTime + MaxTicks

\* A debounced call is followed by a run of the function.
AckEventuallyRuns ==
    (ack_invoked # None /\ ack_ran = 0) ~> (ack_ran = 1 \/ BeyondHorizon)

\* C1: the acknowledgment of a request of amount a that requester r made at
\* time N installs the single entry (r, N) -> a and emits an acknowledgment
\* that carries the nonce N; a record of r that then carries confirmation N
\* and the amount a invokes perform_bolus(a) once and leaves the table empty.
\* The acknowledgment runs when no other request follows the one it answers
\* and the clock goes on.
C1_HappyPath ==
    /\ [][ /\ AckRuns =>
               LET inv == ack_invoked[1] IN
               /\ pending_confirmations' =
                      (<<inv.args[1][1], inv.time>> :> inv.args[2])
               /\ emitted' = Append(emitted,
                                    AckMessage(inv.args[1][1], inv.time,
                                               inv.args[2]))
           /\ \A key \in DOMAIN pending_confirmations :
                handle_devicestatus(
                    Request(key[1], key[2], pending_confirmations[key]))
                => /\ boluses' = Append(boluses,
                                        [requester |-> key[1],
                                         confirmation |-> key[2],
                                         units |-> pending_confirmations[key]])
                   /\ pending_confirmations' = EmptyDict
         ]_vars
    /\ AckEventuallyRuns

\* The handshake has run to its end once: request, acknowledgment with the
\* nonce, resend with the nonce, bolus.
C1_Witness ==
    /\ Len(boluses) = 1
    /\ Len(emitted) = 1
    /\ emitted[1].data.bolusack.confirmation = boluses[1].confirmation
    /\ emitted[1].data.bolusack.initiator = boluses[1].requester
    /\ emitted[1].data.bolusack.units = boluses[1].units
    /\ pending_confirmations = EmptyDict

\* C2: perform_bolus is invoked at most once for each (requesting device,
\* confirmation nonce) pair.
C2_AtMostOncePerNonce ==
    \A i, j \in 1 .. Len(boluses) :
        ( /\ boluses[i].requester = boluses[j].requester
          /\ boluses[i].confirmation = boluses[j].confirmation ) => i = j

\* A confirm record was handled again after its bolus: the second copy found
\* the table empty and was taken for a fresh request.
C2_Witness ==
    /\ Len(boluses) >= 1
    /\ ack_invoked # None
    /\ ack_invoked[1].repeated

\* The last debounced call was made by a record that named a pending key with
\* another amount than the pending one.
Mismatched == ack_invoked # None /\ ack_invoked[1].mismatch

\* C3 as stated: after a record that names the pending key (r, N) with another
\* amount, the table still holds exactly (r, N) -> a, also once the
\* acknowledgment that the record scheduled has run.
C3_TableUnchanged ==
    [][ ( /\ AckRuns
          /\ Mismatched
          /\ pending_confirmations # EmptyDict )
        => pending_confirmations' = pending_confirmations ]_vars

\* C3, amended: such a record invokes no perform_bolus and handling it leaves
\* the table as it was; the acknowledgment it scheduled, when it runs,
\* replaces the table by the single entry (r, time of the record) -> b.
C3_MismatchReplaces ==
    [][ /\ \A key \in DOMAIN pending_confirmations :
           \A b \in Amounts \ {pending_confirmations[key]} :
             handle_devicestatus(Request(key[1], key[2], b))
             => /\ boluses' = boluses
                /\ pending_confirmations' = pending_confirmations
                /\ ack_invoked'[1].mismatch
                /\ ack_invoked'[1].args = <<<<key[1], now>>, b>>
        /\ (AckRuns /\ Mismatched)
             => pending_confirmations' =
                    (<<ack_invoked[1].args[1][1], ack_invoked[1].time>>
                         :> ack_invoked[1].args[2])
      ]_vars

\* The acknowledgment of a mismatching record has run and has put the new
\* amount under a new nonce; no bolus was given.
C3_Witness ==
    /\ Mismatched
    /\ ack_ran = 1
    /\ boluses = <<>>
    /\ pending_confirmations =
           (ack_invoked[1].args[1] :> ack_invoked[1].args[2])
    /\ Len(emitted) = 2

\* C4: the table of pending confirmations holds at most one entry.
C4_AtMostOnePending ==
    Cardinality(DOMAIN pending_confirmations) <= 1

\* An entry is pending while the acknowledgment of a later request, under
\* another key, waits for its Timer.
C4_Witness ==
    /\ Cardinality(DOMAIN pending_confirmations) = 1
    /\ \E tm \in timers : tm.args[1] \notin DOMAIN pending_confirmations

\* C6: of the calls of a debounced function that follow each other by less
\* than the delay, only the last one's Timer runs the function: once, not
\* before the delay has passed since that call, and with that call's
\* arguments; it does run when no call follows and the clock goes on.
C6_DebounceLastCallOnly ==
    /\ [][ AckRuns =>
             LET inv == ack_invoked[1] IN
             /\ ack_ran = 0
             /\ now >= inv.time + AckWait
             /\ timers \ timers' =
                    {[fn |-> "ack_bolus_request", due |-> inv.time + AckWait,
                      args |-> inv.args]}
             /\ timers' = {}
             /\ emitted'[Len(emitted')].data.bolusack.units = inv.args[2]
             /\ emitted'[Len(emitted')].data.bolusack.initiator = inv.args[1][1]
             /\ emitted'[Len(emitted')].data.bolusack.confirmation = inv.args[1][2]
         ]_vars
    /\ [](ack_invoked # None => <>(ack_ran = 1 \/ BeyondHorizon))

\* A call that cancelled the pending Timer of an earlier call with other
\* arguments has had its own Timer run.
C6_Witness ==
    /\ ack_invoked # None
    /\ ack_ran = 1
    /\ ack_invoked[1].superseded
    /\ Len(emitted) = 1

Addressed(status) == status.bolus # Absent /\ status.bolus[1].target = my_id

\* C16: a record can be handled with a bolus only when it is addressed to this
\* device and the table maps its (device, confirmation) key to its amount; the
\* handling of a record that is addressed to another device changes neither
\* the table nor the Timers nor the boluses nor what was emitted.
C16_ExactMatchOnly ==
    (todo.devicestatus > 0 /\ ~exited)
    => \A status \in Statuses :
          IF Addressed(status)
          THEN ENABLED (handle_devicestatus(status) /\ boluses' # boluses)
               => /\ <<status.device, Confirmation(status.bolus[1])>>
                        \in DOMAIN pending_confirmations
                  /\ pending_confirmations[
                        <<status.device, Confirmation(status.bolus[1])>>]
                       = status.bolus[1].units
          ELSE ~ENABLED ( /\ handle_devicestatus(status)
                          /\ <<pending_confirmations, t, timers, boluses,
                                emitted>>' #
                             <<pending_confirmations, t, timers, boluses,
                               emitted>> )

\* A record for another device is about to be handled while an entry is
\* pending that its device, confirmation and amount match.
C16_Witness ==
    /\ todo.devicestatus > 0
    /\ ~exited
    /\ \E key \in DOMAIN pending_confirmations :
          [device |-> key[1],
           bolus |-> Some([units |-> pending_confirmations[key],
                           target |-> "openaps://other",
                           confirmation |-> Some(key[2])])] \in Statuses

(***************************************************************************)
(* The treatment store and its views.                                      *)
(***************************************************************************)
\* C7: once handle_treatments has handled a removal with the _id X, no stored
\* treatment has the _id X, whatever the other fields of the removal are.
C7_Tombstone ==
    [][ \A removal \in Removes :
          handle_treatments(removal)
          => \A k \in DOMAIN websocket_treatments' :
                websocket_treatments'[k].id # removal.id ]_vars

\* C8: a removal with the _id X deletes no stored treatment that has another
\* _id.
C8_RemovesOnlyById ==
    [][ \A removal \in Removes :
          handle_treatments(removal)
          => \A k \in DOMAIN websocket_treatments :
                websocket_treatments[k].id # removal.id
                => /\ k \in DOMAIN websocket_treatments'
                   /\ websocket_treatments'[k] = websocket_treatments[k] ]_vars

\* The batches of the idempotence check: up to two treatments.
Batches == UNION {[1 .. n -> Treatments] : n \in 0 .. 2}

\* C9: handling a batch twice in a row, at one time, leaves the store and
\* both views as handling it once does.
C9_Idempotent ==
    todo = Idle =>
        \A batch \in Batches :
            AfterBatch(AfterBatch(websocket_treatments, batch).websocket_treatments,
                       batch)
            = AfterBatch(websocket_treatments, batch)

\* The step recomputes the views: the last pass of handle_treatments' loop,
\* or a data event with an empty list of treatments.
Recomputes ==
    /\ todo' = Idle
    /\ now' = now
    /\ main' = main
    /\ ~exited'
    /\ todo = Idle \/ todo.treatments = Some(1)

View(f) ==
    IF f = "settings/temptargets.json" THEN websocket_temp_targets
    ELSE websocket_meal_carbs

\* C10 as stated, for a view that is not empty: of two recomputations in a
\* row that give equal views, the first writes the file and the second does
\* not.
C10_ExactlyOneWrite ==
    [][ \A f \in FileNames :
          (Recomputes /\ recomputed.any /\ View(f)' = View(f) /\ View(f) # <<>>)
          => (recomputed.wrote[f] /\ ~recomputed'.wrote[f]) ]_vars

\* C10, amended: a recomputation writes the file exactly when its view is
\* not empty and differs from the view of the recomputation before it; so of
\* two recomputations in a row that give equal views the second writes
\* nothing, and the two write the file at most once.
C10_WriteOnlyOnChange ==
    [][ \A f \in FileNames :
          Recomputes
          => /\ recomputed'.wrote[f] <=> (View(f)' # View(f) /\ View(f)' # <<>>)
             /\ files'[f] = IF recomputed'.wrote[f] THEN Some(View(f)')
                            ELSE files[f]
             /\ (recomputed.any /\ View(f)' = View(f))
                  => ~(recomputed.wrote[f] /\ recomputed'.wrote[f]) ]_vars

\* The last recomputation gave the view its predecessor gave, which is in the
\* file, and wrote nothing.
C10_Witness ==
    \E f \in FileNames :
        /\ recomputed.any
        /\ ~recomputed.wrote[f]
        /\ View(f) # <<>>
        /\ files[f] = Some(View(f))
        /\ todo = Idle

(***************************************************************************)
(* Claims about the file watcher.                                          *)
(***************************************************************************)

\* C5: two executions of the action throttle(MealWait) wraps are at least
\* MealWait seconds apart.
C5_ThrottleSpacing ==
    Len(meal_json_runs) = 2 => meal_json_runs[2] - meal_json_runs[1] >= MealWait

\* C13: after a run of invoke_reconcile_treatments the key (eventType,
\* timestamp) of every record it pushed as a 'dbAdd' treatment is in the
\* treatment store.
C13_LocalUpsert ==
    [][ invoke_reconcile_treatments
        => \A i \in (Len(emitted) + 1) .. Len(emitted') :
              <<emitted'[i].data.eventType[1], emitted'[i].data.timestamp>>
                  \in DOMAIN websocket_treatments' ]_vars

\* C18: after a completed handle_treatments, what this process last wrote to
\* the file of a view is that view, also when the view has become empty.
C18_FileMatchesView ==
    (todo = Idle /\ recomputed.any /\ ~exited)
    => \A f \in FileNames : files[f] # Unset => files[f] = Some(View(f))

\* C19: no entry in the glucose file is older than 24 hours at the time the
\* file is written.
C19_GlucoseWindow ==
    glucose # Unset
    => \A i \in 1 .. Len(glucose[1]) :
          MillisAtLeast(glucose[1][i].date, Millis(StartTime - 24 * 60 * 60))

\* C14: a treatment that lacks an expected key does not end the session, and
\* the records that follow it in the batch are still handled.
C14_MalformedTolerated ==
    [][ \A treatment \in MalformedTreatments :
          handle_treatments(treatment)
          => /\ ~exited'
             /\ todo.treatments[1] > 1
                  => todo'.treatments = Some(todo.treatments[1] - 1) ]_vars

\* The debounced triggers with their delays, and the paths of each trigger.
DebouncedTriggers ==
    {"invoke_settings_profile_json", "invoke_ns_status",
     "invoke_reconcile_treatments"}

DelayOf(fn) ==
    IF fn = "invoke_settings_profile_json" THEN ProfileWait
    ELSE IF fn = "invoke_ns_status" THEN NsStatusWait
    ELSE ReconcileWait

PathsOf(fn) ==
    IF fn = "invoke_meal_json" THEN MealPaths
    ELSE IF fn = "invoke_settings_profile_json" THEN ProfilePaths
    ELSE IF fn = "invoke_ns_status" THEN NsStatusPaths
    ELSE ReconcilePaths

\* The notification is one that invokes the trigger.
Registered(fn, event) ==
    event.event_type = "modified" /\ event.src_path \in PathsOf(fn)

TimersOf(fn, timerSet) == {x \in timerSet : x.fn = fn}

\* The step is one that the notification's triggers, and only they, have
\* taken part in: a debounced trigger has a new Timer, the throttled one has
\* run; every other trigger has its Timer and attributes as before.
RoutedAsRegistered(event) ==
    /\ \A fn \in DebouncedTriggers :
          IF Registered(fn, event)
          THEN /\ t'[fn] = Some(NewTimer(fn, DelayOf(fn), <<>>))
               /\ TimersOf(fn, timers') = {NewTimer(fn, DelayOf(fn), <<>>)}
          ELSE /\ t'[fn] = t[fn]
               /\ TimersOf(fn, timers') = TimersOf(fn, timers)
    /\ IF Registered("invoke_meal_json", event)
       THEN /\ executed' = Some(now)
            /\ meal_json_runs' = LastTwo(Append(meal_json_runs, now))
       ELSE UNCHANGED <<executed, meal_json_runs>>
    /\ t'["invoke_meal_json"] = t["invoke_meal_json"]
    /\ t'["ack_bolus_request"] = t["ack_bolus_request"]
    /\ (\A fn \in Wrapped : ~Registered(fn, event)) => UNCHANGED <<t, timers>>

\* C20: a notification invokes exactly the triggers registered for its path,
\* and one for a path of no group, or of another type than 'modified',
\* invokes none and leaves the Timers as they are.
C20_Routing ==
    \A event \in Events :
        ~ENABLED (on_modified(event) /\ ~RoutedAsRegistered(event))

\* One notification, for ./monitor/pumphistory-zoned.json, has run
\* invoke_meal_json and started the Timer of invoke_reconcile_treatments, and
\* nothing else.
C20_Witness ==
    /\ executed = Some(now)
    /\ Len(meal_json_runs) = 1
    /\ t["invoke_reconcile_treatments"] # Unset
    /\ t["invoke_reconcile_treatments"][1].due = now + ReconcileWait
    /\ t["invoke_settings_profile_json"] = Unset
    /\ t["invoke_ns_status"] = Unset
    /\ Cardinality(timers) = 1

(***************************************************************************)
(* Claims about the polling loop.                                          *)
(***************************************************************************)

\* C11: when no data event ever arrives, main leaves its loop after exactly
\* 7 polling cycles, with wait_count at 7, and it does leave it unless the
\* transport ends the session first.
C11_IdleTermination ==
    /\ []((main = "done" /\ last_event = 0)
            => (cycles = WaitLimit /\ wait_count = WaitLimit))
    /\ <>(main = "done" \/ last_event # 0 \/ exited)

\* main has left its loop and no data event was ever handled.
C11_Witness ==
    /\ main = "done"
    /\ last_event = 0
    /\ cycles = WaitLimit
    /\ ~exited

\* C12: when the last data event was handled during polling cycle 3, main
\* does not leave its loop before the end of cycle 10.
C12_SevenMoreCycles ==
    (main = "done" /\ last_event = 3) => cycles >= 3 + WaitLimit

\* C17: a disconnect or error notification adds 8 to wait_count, which puts
\* it at or above the threshold.
C17_CounterJumps ==
    [][ (on_disconnect \/ on_error)
        => /\ wait_count' = wait_count + DisconnectStep
           /\ ~LoopCondition(wait_count') ]_vars

====
